---- MODULE Spec2Model ----
(***************************************************************************)
(* The Flush command of the optimistic write path                          *)
(* (src/src/storage/txn/commands/flush.rs): one batch of mutations is      *)
(* prewritten against a snapshot, the errors of the single prewrites are   *)
(* sorted by the match of Flush::flush, and process_write packs the        *)
(* accumulated modifications into a WriteResult for the apply layer.       *)
(*                                                                         *)
(* prewrite, check_committed_record_on_err, MvccTxn and the other          *)
(* commands (commit, rollback, prewrite, pessimistic lock) are not part of *)
(* flush.rs; they are modelled after the design document and drive the     *)
(* store into the states Flush has to cope with.                           *)
(***************************************************************************)
EXTENDS Integers, Sequences, FiniteSets, TLC

(* ------------------------------ bounds -------------------------------- *)
\* Timestamps range over 1..MaxTs.
MaxTs == 3
\* Longest mutation batch of a Flush in the store specification.
MaxLen == 2
\* How often the client issues one and the same Flush request.
MaxIssue == 2
\* Number of operations of other commands (prewrite, pessimistic lock,
\* commit, rollback) in one behaviour.
MaxEnv == 2
\* Longest key / value (in bytes) and longest batch in the write_bytes
\* specification.
MaxKeyLen == 2
MaxValLen == 2
MaxWbLen == 2

(* ---------------------------- data model ------------------------------ *)
\* Encoded keys and values are byte strings.
Keys == {<<1>>, <<2>>}
Values == {<<7>>}
\* The value another client's prewrite puts (never the one of the Flush).
EnvValues == {<<8>>}
Ts == 1..MaxTs

NoLock == [ts |-> 0, kind |-> "None", value |-> <<>>]
NoWrite == [start_ts |-> 0, commit_ts |-> 0, type |-> "None", value |-> <<>>]
NoCmd == [start_ts |-> 0, mutations |-> <<>>]

MutationOps == {"Put", "Insert", "Delete", "Lock", "CheckNotExists"}
Assertions == {"None", "Exist", "NotExist"}

\* txn_types::Mutation: the value is present for Put and Insert only.
Mutation(op, key, value, assertion) ==
    [op |-> op, key |-> key,
     value |-> IF op \in {"Put", "Insert"} THEN value ELSE <<>>,
     assertion |-> assertion]

\* The mutations a Flush of the store specification is built from: every
\* kind of mutation without assertion, and Put with every assertion.
FlushMutations ==
    {Mutation(op, k, v, "None") : op \in MutationOps, k \in Keys, v \in Values}
    \cup {Mutation("Put", k, v, a) : k \in Keys, v \in Values, a \in Assertions}

VARIABLES
    locks,      \* CF_LOCK of the engine: key -> lock record or NoLock
    writes,     \* CF_WRITE of the engine: key -> set of write records
    cmd,        \* the Flush request the client holds (NoCmd: none)
    phase,      \* "idle" | "processed" | "done" | "wb"
    res,        \* what the last process_write returned
    prev,       \* what the previous issue of cmd returned (once applied)
    between,    \* what other commands did on cmd's keys since the last apply
    nissue,     \* how often cmd was issued
    nenv,       \* how many operations of other commands ran
    wb,         \* write_bytes specification: the batch and its byte count
    arms,       \* match specification: the prewrite results and the outcome
    sched       \* latch specification: the commands in the scheduler

vars == <<locks, writes, cmd, phase, res, prev, between, nissue, nenv, wb,
          arms, sched>>

(* ------------------------ the snapshot reader -------------------------- *)
\* SnapshotReader::seek_write(key, TimeStamp::max()): the write record of
\* the key with the greatest commit_ts, of whatever type.
SeekWrite(wr) ==
    IF wr = {} THEN NoWrite
    ELSE CHOOSE w \in wr : \A x \in wr : x.commit_ts <= w.commit_ts

\* The newest Put or Delete committed at or before ts decides whether the
\* key exists at ts.
KeyExist(wr, ts) ==
    LET data == {w \in wr : w.type \in {"Put", "Delete"} /\ w.commit_ts <= ts}
    IN  data # {} /\ SeekWrite(data).type = "Put"

\* SnapshotReader::get_txn_commit_record(key) of the reader at start_ts: the
\* record that start_ts left on the key, if any.
GetTxnCommitRecord(wr, start_ts) ==
    LET own == {w \in wr : w.start_ts = start_ts}
    IN  IF own = {} THEN NoWrite ELSE CHOOSE w \in own : TRUE

\* A commit record (anything but a rollback) of start_ts on the key.
HasCommittedRecord(wr, start_ts) ==
    GetTxnCommitRecord(wr, start_ts).type \notin {"None", "Rollback"}

\* PointGetter::get(key) at read timestamp ts (must_get): a lock of a Put or
\* Delete at or before ts blocks the read; else the newest Put or Delete
\* committed at or before ts gives the value.
Get(lk, wr, ts) ==
    LET data == {w \in wr : w.type \in {"Put", "Delete"} /\ w.commit_ts <= ts}
    IN  IF lk # NoLock /\ lk.kind \in {"Put", "Delete"} /\ lk.ts <= ts
            THEN [kind |-> "KeyIsLocked", value |-> <<>>]
        ELSE IF data # {} /\ SeekWrite(data).type = "Put"
            THEN [kind |-> "Value", value |-> SeekWrite(data).value]
        ELSE [kind |-> "None", value |-> <<>>]

(* --------------------------- prewrite action --------------------------- *)
LockType(op) == IF op = "Insert" THEN "Put" ELSE op

\* guard: prewrite has locked the key in memory and left the guard in the
\* txn, which it does for async commit and one-phase commit only.
PrewriteResult(kind, key, start_ts, cts, lock) ==
    [kind |-> kind, key |-> key, start_ts |-> start_ts,
     conflict_commit_ts |-> cts, lock |-> lock, guard |-> FALSE]

\* The declared existence precondition of the mutation does not hold.
AssertionFails(wr, start_ts, m) ==
    \/ m.assertion = "Exist" /\ ~KeyExist(wr, start_ts)
    \/ m.assertion = "NotExist" /\ KeyExist(wr, start_ts)

\* prewrite(txn, reader, props, m, &None, SkipPessimisticCheck, None) with
\* the properties Flush passes: optimistic with constraint check, two-phase
\* commit, strict assertions.  lk and wr are the lock and the write records
\* of m.key in the snapshot.
Prewrite(lk, wr, start_ts, m) ==
    LET latest == SeekWrite(wr)
        R(kind, cts, lock) == PrewriteResult(kind, m.key, start_ts, cts, lock)
    IN  IF lk # NoLock /\ lk.ts # start_ts
            THEN R("KeyIsLocked", 0, NoLock)
        ELSE IF lk # NoLock /\ lk.kind = "Pessimistic"
            THEN R("LockTypeNotMatch", 0, NoLock)
        ELSE IF lk # NoLock
            \* duplicated command: the lock is there already
            THEN R("Ok", 0, NoLock)
        ELSE IF latest # NoWrite /\ latest.commit_ts = start_ts
                /\ latest.type = "Rollback"
            \* this transaction has been rolled back
            THEN R("WriteConflict", latest.commit_ts, NoLock)
        ELSE IF latest # NoWrite /\ latest.commit_ts > start_ts
            THEN R("WriteConflict", latest.commit_ts, NoLock)
        ELSE IF m.op \in {"Insert", "CheckNotExists"} /\ KeyExist(wr, start_ts)
            THEN R("AlreadyExist", 0, NoLock)
        ELSE IF AssertionFails(wr, start_ts, m)
            THEN R("AssertionFailed", 0, NoLock)
        ELSE IF m.op = "CheckNotExists"
            \* an existence check writes nothing
            THEN R("Ok", 0, NoLock)
        ELSE R("Ok", 0, [ts |-> start_ts, kind |-> LockType(m.op),
                         value |-> m.value])

(* ------------------------------ Flush ---------------------------------- *)
NoErr == [kind |-> "None", key |-> <<>>, conflict_commit_ts |-> 0]
ErrorOf(r) == [kind |-> r.kind, key |-> r.key,
               conflict_commit_ts |-> r.conflict_commit_ts]

\* What the loop of Flush::flush carries from one mutation to the next:
\* txn.modifies, the vector `locks`, `assertion_failure`, and (for the
\* properties only) the mutations prewritten and the keys looked up so far.
FlushState0 ==
    [modifies |-> <<>>, guards |-> <<>>, locks |-> <<>>,
     assertion_failure |-> NoErr, trace |-> <<>>, lookups |-> <<>>]

FlushReturn(outcome, err, list, st, retried) ==
    [outcome |-> outcome, err |-> err, locks |-> list,
     modifies |-> st.modifies, guards |-> st.guards, retried |-> retried,
     trace |-> st.trace, lookups |-> st.lookups]

\* check_committed_record_on_err leaving the transaction accumulator as it
\* is.
CheckCommittedRecordOnErrKeepsTxn(r, wr, start_ts, st) ==
    LET st1 == [st EXCEPT !.lookups = Append(@, r.key)]
    IN  IF HasCommittedRecord(wr, start_ts)
        THEN [ok |-> TRUE, list |-> <<>>, err |-> NoErr, st |-> st1]
        ELSE [ok |-> FALSE, list |-> <<>>, err |-> ErrorOf(r), st |-> st1]

\* check_committed_record_on_err(prewrite_result, txn, reader, &key): with a
\* commit record of this start_ts on the key the transaction accumulator is
\* cleared and the recorded (empty) result list is returned; without one the
\* error of prewrite is returned.
CheckCommittedRecordOnErr(r, wr, start_ts, st) ==
    LET st1 == [st EXCEPT !.lookups = Append(@, r.key)]
    IN  IF HasCommittedRecord(wr, start_ts)
        THEN [ok |-> TRUE, list |-> <<>>, err |-> NoErr,
              st |-> [st1 EXCEPT !.modifies = <<>>, !.guards = <<>>]]
        ELSE [ok |-> FALSE, list |-> <<>>, err |-> ErrorOf(r), st |-> st1]

\* The comparison of the guard turned round.
IsConflictWithOlderCommit(r) ==
    r.kind = "WriteConflict" /\ r.conflict_commit_ts < r.start_ts

\* The guard of the WriteConflict arm.
IsConflictWithNewerCommit(r) ==
    r.kind = "WriteConflict" /\ r.conflict_commit_ts > r.start_ts

\* Ok((_ts, old_value)): prewrite has put the lock (if any) into the txn.
OkArm(r, st) ==
    LET st1 == IF r.guard THEN [st EXCEPT !.guards = Append(@, r.key)] ELSE st
    IN  IF r.lock = NoLock THEN st1
        ELSE [st1 EXCEPT !.modifies = Append(@, [key |-> r.key, lock |-> r.lock])]

\* The WriteConflict arm returning the entries collected so far in front of
\* what the lookup returns.
WriteConflictArmKeepsLocks(r, wr, start_ts, st) ==
    LET c == CheckCommittedRecordOnErr(r, wr, start_ts, st)
    IN  IF c.ok THEN FlushReturn("Ok", NoErr, st.locks \o c.list, c.st, TRUE)
        ELSE FlushReturn("Err", c.err, <<>>, c.st, FALSE)

\* The WriteConflict arm giving way to a remembered assertion failure.
WriteConflictArmAfterAssertion(r, wr, start_ts, st) ==
    LET c == CheckCommittedRecordOnErr(r, wr, start_ts, st)
    IN  IF c.ok THEN FlushReturn("Ok", NoErr, c.list, c.st, TRUE)
        ELSE IF st.assertion_failure # NoErr
            THEN FlushReturn("Err", st.assertion_failure, <<>>, c.st, FALSE)
        ELSE FlushReturn("Err", c.err, <<>>, c.st, FALSE)

\* WriteConflict with conflict_commit_ts > start_ts: return what the lookup
\* of the committed record says.
WriteConflictArm(r, wr, start_ts, st) ==
    LET c == CheckCommittedRecordOnErr(r, wr, start_ts, st)
    IN  IF c.ok THEN FlushReturn("Ok", NoErr, c.list, c.st, TRUE)
        ELSE FlushReturn("Err", c.err, <<>>, c.st, FALSE)

\* The KeyIsLocked arm with `?` in place of the match: the error of the
\* lookup ends the command.
KeyIsLockedArmFatal(r, wr, start_ts, st) ==
    LET c == CheckCommittedRecordOnErr(r, wr, start_ts, st)
    IN  IF c.ok
        THEN [done |-> TRUE, ret |-> FlushReturn("Ok", NoErr, c.list, c.st, TRUE),
              st |-> c.st]
        ELSE [done |-> TRUE, ret |-> FlushReturn("Err", c.err, <<>>, c.st, FALSE),
              st |-> c.st]

\* The KeyIsLocked arm putting the error in front of `locks`.
KeyIsLockedArmPrepends(r, wr, start_ts, st) ==
    LET c == CheckCommittedRecordOnErr(r, wr, start_ts, st)
    IN  IF c.ok
        THEN [done |-> TRUE, ret |-> FlushReturn("Ok", NoErr, c.list, c.st, TRUE),
              st |-> c.st]
        ELSE [done |-> FALSE, ret |-> FlushReturn("Ok", NoErr, <<>>, c.st, FALSE),
              st |-> [c.st EXCEPT !.locks = <<c.err>> \o @]]

\* The KeyIsLocked arm pushing the error without the lookup.
KeyIsLockedArmNoLookup(r, wr, start_ts, st) ==
    [done |-> FALSE, ret |-> FlushReturn("Ok", NoErr, <<>>, st, FALSE),
     st |-> [st EXCEPT !.locks = Append(@, ErrorOf(r))]]

\* KeyIsLocked: return on a committed record; else push the error onto
\* `locks` and go on.  done tells whether flush returned.
KeyIsLockedArm(r, wr, start_ts, st) ==
    LET c == CheckCommittedRecordOnErr(r, wr, start_ts, st)
    IN  IF c.ok
        THEN [done |-> TRUE, ret |-> FlushReturn("Ok", NoErr, c.list, c.st, TRUE),
              st |-> c.st]
        ELSE [done |-> FALSE, ret |-> FlushReturn("Ok", NoErr, <<>>, c.st, FALSE),
              st |-> [c.st EXCEPT !.locks = Append(@, c.err)]]

\* AssertionFailed: remember the last one.
AssertionFailedArmLastWins(r, st) ==
    [st EXCEPT !.assertion_failure = ErrorOf(r)]

\* AssertionFailed: remember the first one.
AssertionFailedArm(r, st) ==
    IF st.assertion_failure = NoErr
    THEN [st EXCEPT !.assertion_failure = ErrorOf(r)]
    ELSE st

\* Err(e) => return Err(Error::from(e))
OtherErrArm(r, st) == FlushReturn("Err", ErrorOf(r), <<>>, st, FALSE)

\* The end of flush returning a fresh vector instead of `locks`.
AfterLoopDropsLocks(st) ==
    IF st.assertion_failure # NoErr
    THEN FlushReturn("Err", st.assertion_failure, <<>>, st, FALSE)
    ELSE FlushReturn("Ok", NoErr, <<>>, st, FALSE)

\* After the loop: a remembered assertion failure is the result, else the
\* vector `locks`.
AfterLoop(st) ==
    IF st.assertion_failure # NoErr
    THEN FlushReturn("Err", st.assertion_failure, <<>>, st, FALSE)
    ELSE FlushReturn("Ok", NoErr, st.locks, st, FALSE)

\* The two ways an arm of the match ends: the loop goes on with the state
\* st, or flush returns ret.
Continue(st) ==
    [done |-> FALSE, ret |-> FlushReturn("Ok", NoErr, <<>>, st, FALSE), st |-> st]
Return(ret, st) == [done |-> TRUE, ret |-> ret, st |-> st]

\* The arm of PessimisticLockNotFound and CommitTsTooLarge recording the
\* error as a per-key entry and going on.
UnreachableArmPushes(r, st) ==
    Continue([st EXCEPT !.locks = Append(@, ErrorOf(r))])

\* PessimisticLockNotFound | CommitTsTooLarge => unreachable!(): the thread
\* panics; nothing is returned.
UnreachableArm(r, st) ==
    Return(FlushReturn("Panic", ErrorOf(r), <<>>, st, FALSE), st)

\* The last arm recording the error as a per-key entry and going on.
OtherErrPushed(r, st) ==
    Continue([st EXCEPT !.locks = Append(@, ErrorOf(r))])

\* The last arm: flush returns the error.
OtherErrReturn(r, st) == Return(OtherErrArm(r, st), st)

\* The match on prewrite_result, in the order of the arms.  wr are the
\* write records of the key of the mutation in the snapshot.
MatchPrewriteResult(r, wr, start_ts, st) ==
    IF r.kind = "Ok"
        THEN Continue(OkArm(r, st))
    ELSE IF IsConflictWithNewerCommit(r)
        THEN Return(WriteConflictArm(r, wr, start_ts, st), st)
    ELSE IF r.kind \in {"PessimisticLockNotFound", "CommitTsTooLarge"}
        THEN UnreachableArm(r, st)
    ELSE IF r.kind = "KeyIsLocked"
        THEN KeyIsLockedArm(r, wr, start_ts, st)
    ELSE IF r.kind = "AssertionFailed"
        THEN Continue(AssertionFailedArm(r, st))
    ELSE OtherErrReturn(r, st)

\* The loop over the mutations from the i-th on: prewrite on the snapshot,
\* then the match.
RECURSIVE FlushLoop(_, _, _, _, _)
FlushLoop(lks, wrs, c, i, st) ==
    IF i > Len(c.mutations) THEN AfterLoop(st)
    ELSE
      LET m == c.mutations[i]
          r == Prewrite(lks[m.key], wrs[m.key], c.start_ts, m)
          a == MatchPrewriteResult(r, wrs[m.key], c.start_ts,
                                   [st EXCEPT !.trace = Append(@, i)])
      IN  IF a.done THEN a.ret ELSE FlushLoop(lks, wrs, c, i + 1, a.st)

\* Flush::flush on the snapshot (lks, wrs).
Flush(lks, wrs, c) == FlushLoop(lks, wrs, c, 1, FlushState0)

NoRes ==
    [outcome |-> "None", err |-> NoErr, pr |-> <<>>, handed |-> FALSE,
     to_be_write |-> <<>>, staged |-> <<>>, rows |-> 0, retried |-> FALSE,
     trace |-> <<>>, lookups |-> <<>>,
     lock_guards |-> <<>>, released_locks |-> {}, response_policy |-> "None"]

\* process_write without the assertion on the guards: whatever the txn
\* holds is handed over.
WriteResultOfKeepsGuards(f, n) ==
    LET handed == f.outcome = "Ok"
    IN  [outcome |-> f.outcome, err |-> f.err,
         pr |-> IF handed THEN f.locks ELSE <<>>,
         handed |-> handed,
         to_be_write |-> IF handed THEN f.modifies ELSE <<>>,
         staged |-> f.modifies,
         rows |-> IF handed THEN n ELSE 0,
         retried |-> f.retried, trace |-> f.trace, lookups |-> f.lookups,
         lock_guards |-> IF handed THEN f.guards ELSE <<>>,
         released_locks |-> {},
         response_policy |-> IF handed THEN "OnApplied" ELSE "None"]

\* What process_write makes of the result f of flush, for a batch of n
\* mutations: with an error (or a panic) of flush no WriteResult is built;
\* take_guards and assert!(guards.is_empty()) come before the WriteResult,
\* whose lock_info and released_locks are empty and whose response policy
\* is OnApplied.
WriteResultOf(f, n) ==
    LET asserted == f.guards = <<>>
        handed == f.outcome = "Ok" /\ asserted
    IN  [outcome |-> IF f.outcome = "Ok" /\ ~asserted THEN "Panic" ELSE f.outcome,
         err |-> f.err,
         pr |-> IF handed THEN f.locks ELSE <<>>,
         handed |-> handed,
         to_be_write |-> IF handed THEN f.modifies ELSE <<>>,
         staged |-> f.modifies,
         rows |-> IF handed THEN n ELSE 0,
         retried |-> f.retried, trace |-> f.trace, lookups |-> f.lookups,
         lock_guards |-> IF handed THEN f.guards ELSE <<>>,
         released_locks |-> {},
         response_policy |-> IF handed THEN "OnApplied" ELSE "None"]

\* process_write building the WriteResult without looking at the result of
\* flush.
ProcessWriteKeepsModifies(lks, wrs, c) ==
    LET f == Flush(lks, wrs, c)
    IN  [outcome |-> f.outcome, err |-> f.err, pr |-> f.locks,
         handed |-> TRUE, to_be_write |-> f.modifies, staged |-> f.modifies,
         rows |-> Len(c.mutations),
         retried |-> f.retried, trace |-> f.trace, lookups |-> f.lookups,
         lock_guards |-> <<>>, released_locks |-> {},
         response_policy |-> IF f.outcome = "Ok" THEN "OnApplied" ELSE "None"]

\* process_write handing over a WriteResult without the modifications of
\* the txn.
ProcessWriteDropsModifies(lks, wrs, c) ==
    LET f == Flush(lks, wrs, c)
        handed == f.outcome = "Ok"
    IN  [outcome |-> f.outcome, err |-> f.err,
         pr |-> IF handed THEN f.locks ELSE <<>>,
         handed |-> handed,
         to_be_write |-> <<>>,
         staged |-> f.modifies,
         rows |-> IF handed THEN Len(c.mutations) ELSE 0,
         retried |-> f.retried, trace |-> f.trace, lookups |-> f.lookups,
         lock_guards |-> <<>>, released_locks |-> {},
         response_policy |-> IF f.outcome = "Ok" THEN "OnApplied" ELSE "None"]

\* Flush::process_write: `res?` returns the error of flush and drops the
\* txn; else the modifications of the txn become to_be_write of the
\* WriteResult and the vector of flush its MultiRes.
ProcessWrite(lks, wrs, c) == WriteResultOf(Flush(lks, wrs, c), Len(c.mutations))

\* write_bytes counting the key of an existence check.
RECURSIVE WriteBytesFromCountingChecks(_, _)
WriteBytesFromCountingChecks(muts, i) ==
    IF i > Len(muts) THEN 0
    ELSE LET m == muts[i]
             bytes == IF m.op \in {"Put", "Insert"}
                          THEN Len(m.key) + Len(m.value)
                      ELSE Len(m.key)
         IN  bytes + WriteBytesFromCountingChecks(muts, i + 1)

\* Flush::write_bytes.
RECURSIVE WriteBytesFrom(_, _)
WriteBytesFrom(muts, i) ==
    IF i > Len(muts) THEN 0
    ELSE LET m == muts[i]
             bytes == IF m.op \in {"Put", "Insert"}
                          THEN Len(m.key) + Len(m.value)
                      ELSE IF m.op \in {"Delete", "Lock"}
                          THEN Len(m.key)
                      ELSE 0
         IN  bytes + WriteBytesFrom(muts, i + 1)

WriteBytes(muts) == WriteBytesFrom(muts, 1)

(* ----------------------------- the engine ------------------------------ *)
\* An engine that loses the write-set.
WriteModifiesLost(lks, mods, i) == lks

\* An engine that replaces the lock column family by the write-set.
WriteModifiesOnly(lks, mods, i) ==
    [k \in DOMAIN lks |->
        IF \E j \in 1..Len(mods) : mods[j].key = k
        THEN mods[CHOOSE j \in 1..Len(mods) :
                      /\ mods[j].key = k
                      /\ \A l \in 1..Len(mods) : mods[l].key = k => l <= j].lock
        ELSE NoLock]

\* An engine that writes the first modification of the write-set only.
WriteModifiesFirstOnly(lks, mods, i) ==
    IF mods = <<>> THEN lks
    ELSE [lks EXCEPT ![mods[1].key] = mods[1].lock]

\* engine.write(to_be_write): the lock puts of the write-set, in order.
RECURSIVE WriteModifies(_, _, _)
WriteModifies(lks, mods, i) ==
    IF i > Len(mods) THEN lks
    ELSE WriteModifies([lks EXCEPT ![mods[i].key] = mods[i].lock], mods, i + 1)

\* gen_lock!(mutations: single(...)): the latch of the first mutation only.
CmdKeysFirstOnly(c) ==
    IF c.mutations = <<>> THEN {} ELSE {c.mutations[1].key}

\* gen_lock!(mutations: multiple(|x| x.key())): the latches the command
\* declares.
CmdKeys(c) == {c.mutations[i].key : i \in 1..Len(c.mutations)}

Batches == UNION {[1..n -> FlushMutations] : n \in 0..MaxLen}

\* start_ts has a commit record / a rollback record on some key.
Committed(start_ts) ==
    \E k \in Keys : \E w \in writes[k] :
        w.start_ts = start_ts /\ w.type # "Rollback"
RolledBack(start_ts) ==
    \E k \in Keys : \E w \in writes[k] :
        w.start_ts = start_ts /\ w.type = "Rollback"

\* What an operation of another command on key k, of transaction start_ts,
\* adds to `between`.
Touch(k, start_ts, committing) ==
    IF phase = "done" /\ k \in CmdKeys(cmd)
    THEN between \cup {IF committing /\ start_ts # cmd.start_ts
                       THEN "foreign_commit" ELSE "other"}
    ELSE between

NoWb == [mutations |-> <<>>, bytes |-> -1]
NoArms == [start_ts |-> 0, results |-> <<>>, records |-> <<>>, out |-> NoRes]
NoSched == <<>>

(* ------------------------------ actions -------------------------------- *)
Init ==
    /\ locks = [k \in Keys |-> NoLock]
    /\ writes = [k \in Keys |-> {}]
    /\ cmd = NoCmd
    /\ phase = "idle"
    /\ res = NoRes
    /\ prev = NoRes
    /\ between = {}
    /\ nissue = 0
    /\ nenv = 0
    /\ wb = NoWb
    /\ arms = NoArms
    /\ sched = NoSched

\* The client sends a Flush; the scheduler runs process_write on a snapshot.
Submit(start_ts, muts) ==
    /\ phase = "idle"
    /\ cmd' = [start_ts |-> start_ts, mutations |-> muts]
    /\ res' = ProcessWrite(locks, writes, cmd')
    /\ phase' = "processed"
    /\ nissue' = 1
    /\ UNCHANGED <<locks, writes, prev, between, nenv, wb,
                 arms, sched>>

\* The scheduler hands to_be_write of the WriteResult (if there is one) to
\* the engine and answers the client.
Apply ==
    /\ phase = "processed"
    /\ locks' = WriteModifies(locks, res.to_be_write, 1)
    /\ prev' = res
    /\ between' = {}
    /\ phase' = "done"
    /\ UNCHANGED <<writes, cmd, res, nissue, nenv, wb,
                 arms, sched>>

\* The client sends the identical request again.
Reissue ==
    /\ phase = "done"
    /\ nissue < MaxIssue
    /\ res' = ProcessWrite(locks, writes, cmd)
    /\ phase' = "processed"
    /\ nissue' = nissue + 1
    /\ UNCHANGED <<locks, writes, cmd, prev, between, nenv, wb,
                 arms, sched>>

EnvEnabled == phase \in {"idle", "done"} /\ nenv < MaxEnv

\* Another client's prewrite or single-key Flush of a Put (must_prewrite_put,
\* must_flush_put): both run the same prewrite action and leave the same
\* lock record, applied at once.
EnvPrewrite(k, start_ts, v) ==
    /\ EnvEnabled
    /\ LET r == Prewrite(locks[k], writes[k], start_ts,
                         Mutation("Put", k, v, "None"))
       IN  /\ r.kind = "Ok"
           /\ r.lock # NoLock
           /\ locks' = [locks EXCEPT ![k] = r.lock]
    /\ between' = Touch(k, start_ts, FALSE)
    /\ nenv' = nenv + 1
    /\ UNCHANGED <<writes, cmd, phase, res, prev, nissue, wb,
                 arms, sched>>

\* acquire_pessimistic_lock on a key with lock lk and write records wr: the
\* lock of another transaction, a version committed after for_update_ts, or
\* a record of this transaction make it fail.
AcquirePessimisticLock(lk, wr, start_ts, for_update_ts) ==
    IF lk # NoLock /\ lk.ts # start_ts THEN "KeyIsLocked"
    ELSE IF lk # NoLock THEN "Locked"
    ELSE IF \E w \in wr : w.commit_ts > for_update_ts THEN "WriteConflict"
    ELSE IF \E w \in wr : w.start_ts = start_ts THEN "Written"
    ELSE "Ok"

\* must_acquire_pessimistic_lock(k, pk, start_ts, for_update_ts).
EnvPessimisticLock(k, start_ts, for_update_ts) ==
    /\ EnvEnabled
    /\ for_update_ts >= start_ts
    /\ AcquirePessimisticLock(locks[k], writes[k], start_ts, for_update_ts) = "Ok"
    /\ locks' = [locks EXCEPT ![k] = [ts |-> start_ts, kind |-> "Pessimistic",
                                      value |-> <<>>]]
    /\ between' = Touch(k, start_ts, FALSE)
    /\ nenv' = nenv + 1
    /\ UNCHANGED <<writes, cmd, phase, res, prev, nissue, wb,
                 arms, sched>>

\* must_commit(k, start_ts, commit_ts).
EnvCommit(k, start_ts, commit_ts) ==
    /\ EnvEnabled
    /\ commit_ts > start_ts
    /\ locks[k].ts = start_ts
    /\ locks[k].kind # "Pessimistic"
    /\ ~RolledBack(start_ts)
    /\ \A j \in Keys : \A w \in writes[j] :
           w.start_ts = start_ts => w.commit_ts = commit_ts
    /\ \A w \in writes[k] : w.commit_ts # commit_ts
    /\ writes' = [writes EXCEPT ![k] = @ \cup
                    {[start_ts |-> start_ts, commit_ts |-> commit_ts,
                      type |-> locks[k].kind, value |-> locks[k].value]}]
    /\ locks' = [locks EXCEPT ![k] = NoLock]
    /\ between' = Touch(k, start_ts, TRUE)
    /\ nenv' = nenv + 1
    /\ UNCHANGED <<cmd, phase, res, prev, nissue, wb,
                 arms, sched>>

\* must_rollback(k, start_ts): the lock of start_ts on k, if any, is removed
\* and a rollback record is left.
EnvRollback(k, start_ts) ==
    /\ EnvEnabled
    /\ ~Committed(start_ts)
    /\ \A w \in writes[k] : w.commit_ts # start_ts
    /\ writes' = [writes EXCEPT ![k] = @ \cup
                    {[start_ts |-> start_ts, commit_ts |-> start_ts,
                      type |-> "Rollback", value |-> <<>>]}]
    /\ locks' = [locks EXCEPT ![k] = IF @.ts = start_ts THEN NoLock ELSE @]
    /\ between' = Touch(k, start_ts, FALSE)
    /\ nenv' = nenv + 1
    /\ UNCHANGED <<cmd, phase, res, prev, nissue, wb,
                 arms, sched>>

Next ==
    \/ \E s \in Ts, muts \in Batches : Submit(s, muts)
    \/ Apply
    \/ Reissue
    \/ \E k \in Keys, s \in Ts, v \in EnvValues : EnvPrewrite(k, s, v)
    \/ \E k \in Keys, s \in Ts, f \in Ts : EnvPessimisticLock(k, s, f)
    \/ \E k \in Keys, s \in Ts, c \in Ts : EnvCommit(k, s, c)
    \/ \E k \in Keys, s \in Ts : EnvRollback(k, s)

Spec == Init /\ [][Next]_vars

(* ----------------------------- properties ------------------------------ *)
\* process_write has returned and the engine still is the snapshot it ran on.
Processed == phase = "processed"

Idx == 1..Len(cmd.mutations)

\* What prewrite reports for mutation i of cmd on the snapshot.
PrewriteOf(i) ==
    Prewrite(locks[cmd.mutations[i].key], writes[cmd.mutations[i].key],
             cmd.start_ts, cmd.mutations[i])

ReturnedErr(kind) == res.outcome = "Err" /\ res.err.kind = kind

ModKeys(mods) == {mods[i].key : i \in 1..Len(mods)}

\* C1: in a batch with a mutation whose prewrite yields WriteConflict or
\* KeyIsLocked and another whose prewrite yields AssertionFailed, Flush
\* never returns the AssertionFailed error.
C1_ConflictBeforeAssertion ==
    (/\ Processed
     /\ \E i \in Idx : PrewriteOf(i).kind \in {"WriteConflict", "KeyIsLocked"}
     /\ \E j \in Idx : PrewriteOf(j).kind = "AssertionFailed")
    => ~ReturnedErr("AssertionFailed")

\* C2: a Flush that was applied, and whose transaction was then committed on
\* its keys, returns on being issued again the successful result of the
\* committed-record lookup (the empty recorded list), not WriteConflict.
C2_RetryAfterCommit ==
    (/\ Processed
     /\ nissue >= 2
     /\ prev.handed
     /\ Idx # {}
     /\ \A k \in CmdKeys(cmd) : HasCommittedRecord(writes[k], cmd.start_ts))
    => (/\ res.outcome = "Ok"
        /\ res.retried
        /\ res.pr = <<>>
        /\ ~ReturnedErr("WriteConflict"))

C2_Witness ==
    /\ Processed
    /\ nissue = 2
    /\ prev.handed
    /\ prev.to_be_write # <<>>
    /\ Idx # {}
    /\ \A k \in CmdKeys(cmd) : HasCommittedRecord(writes[k], cmd.start_ts)
    /\ \E i \in Idx : PrewriteOf(i).kind = "WriteConflict"
    /\ res.retried

\* The second of two issues of the same Flush gives the per-key list of the
\* first and stages no lock for a key the first staged one for.
SameAsPrevious ==
    /\ res.outcome = "Ok"
    /\ res.pr = prev.pr
    /\ ModKeys(res.to_be_write) \cap ModKeys(prev.to_be_write) = {}

\* C3 as stated: the same Flush twice, the first applied, no commit of a
\* different transaction on a shared key in between.
C3_IdempotentUnlessForeignCommit ==
    (/\ Processed
     /\ nissue >= 2
     /\ prev.handed
     /\ "foreign_commit" \notin between)
    => SameAsPrevious

\* C3 amended: the same Flush twice, the first applied, and no operation of
\* any other command on a shared key in between.
C3_IdempotentBackToBack ==
    (/\ Processed
     /\ nissue >= 2
     /\ prev.handed
     /\ between = {})
    => SameAsPrevious

C3_Witness ==
    /\ Processed
    /\ nissue = 2
    /\ prev.handed
    /\ between = {}
    /\ prev.to_be_write # <<>>
    /\ prev.pr # <<>>
    /\ res.pr = prev.pr
    /\ res.to_be_write = <<>>

\* Mutation i meets the lock of a foreign transaction, there is no commit
\* record of this start_ts on its key, and prewrite succeeds for every other
\* mutation; the keys of the batch are distinct.
OneForeignLock(i) ==
    /\ PrewriteOf(i).kind = "KeyIsLocked"
    /\ ~HasCommittedRecord(writes[cmd.mutations[i].key], cmd.start_ts)
    /\ \A j \in Idx \ {i} : PrewriteOf(j).kind = "Ok"
    /\ \A j, l \in Idx : j # l => cmd.mutations[j].key # cmd.mutations[l].key

PartialResult(i, nlocks) ==
    /\ res.outcome = "Ok"
    /\ res.handed
    /\ Len(res.to_be_write) = nlocks
    /\ res.pr = <<[kind |-> "KeyIsLocked", key |-> cmd.mutations[i].key,
                   conflict_commit_ts |-> 0]>>

PutOnOlderLock ==
    /\ Processed
    /\ Len(cmd.mutations) = 1
    /\ cmd.mutations[1].op = "Put"
    /\ locks[cmd.mutations[1].key] # NoLock
    /\ locks[cmd.mutations[1].key].ts < cmd.start_ts

KeyIsLockedResult ==
    /\ res.outcome = "Ok"
    /\ res.handed
    /\ res.pr = <<[kind |-> "KeyIsLocked", key |-> cmd.mutations[1].key,
                   conflict_commit_ts |-> 0]>>

\* C5 as stated: the Flush of a Put on a key locked at s1 < start_ts, by
\* whatever command, succeeds with a KeyIsLocked entry for the key.
C5_MeetLock == PutOnOlderLock => KeyIsLockedResult

\* C5 amended: ... unless there is a commit record of start_ts on the key
\* (then the Flush is an idempotent retry).
C5_MeetLockNoRecord ==
    (/\ PutOnOlderLock
     /\ ~HasCommittedRecord(writes[cmd.mutations[1].key], cmd.start_ts))
    => KeyIsLockedResult

C5_Witness ==
    /\ PutOnOlderLock
    /\ locks[cmd.mutations[1].key].kind = "Pessimistic"
    /\ ~HasCommittedRecord(writes[cmd.mutations[1].key], cmd.start_ts)
    /\ KeyIsLockedResult

InSeq(x, seq) == \E i \in 1..Len(seq) : seq[i] = x

LookedUpAndNotFound(k) ==
    /\ InSeq(k, res.lookups)
    /\ ~HasCommittedRecord(writes[k], cmd.start_ts)

\* C6 as stated: a WriteConflict or KeyIsLocked reaches the caller, as the
\* error of the command or as a per-key entry, only after the lookup of the
\* committed record of (key, start_ts) found none.
C6_LookupBeforeSurfacing ==
    Processed =>
        /\ (res.outcome = "Err" /\ res.err.kind \in {"WriteConflict", "KeyIsLocked"})
               => LookedUpAndNotFound(res.err.key)
        /\ \A i \in 1..Len(res.pr) :
               res.pr[i].kind \in {"WriteConflict", "KeyIsLocked"}
                   => LookedUpAndNotFound(res.pr[i].key)

\* C6 amended: the same for KeyIsLocked and for a WriteConflict with
\* conflict_commit_ts > start_ts.
C6_LookupBeforeSurfacingNewer ==
    Processed =>
        /\ (/\ res.outcome = "Err"
            /\ \/ res.err.kind = "KeyIsLocked"
               \/ /\ res.err.kind = "WriteConflict"
                  /\ res.err.conflict_commit_ts > cmd.start_ts)
               => LookedUpAndNotFound(res.err.key)
        /\ \A i \in 1..Len(res.pr) :
               res.pr[i].kind \in {"WriteConflict", "KeyIsLocked"}
                   => LookedUpAndNotFound(res.pr[i].key)

C6_Witness ==
    /\ Processed
    /\ ReturnedErr("WriteConflict")
    /\ res.err.conflict_commit_ts > cmd.start_ts
    /\ LookedUpAndNotFound(res.err.key)
    /\ res.staged # <<>>

\* C7: a Flush that ends with a fatal error produces no WriteResult, and
\* nothing staged for its earlier mutations reaches the engine.
C7_NoWriteSetOnFatal ==
    (phase \in {"processed", "done"} /\ res.outcome = "Err")
    => (~res.handed /\ res.to_be_write = <<>> /\ res.pr = <<>>)

C7_Witness ==
    /\ Processed
    /\ res.outcome = "Err"
    /\ res.staged # <<>>
    /\ ~res.handed

\* C8: the write-set of one Flush never holds two lock records for one key.
C8_OneLockPerKey ==
    \A i, j \in 1..Len(res.to_be_write) :
        i # j => res.to_be_write[i].key # res.to_be_write[j].key

\* C9: when prewrite reports WriteConflict for some mutation of the batch,
\* Flush does not return the AssertionFailed error.
C9_ConflictNotSuppressed ==
    (/\ Processed
     /\ \E i \in Idx : PrewriteOf(i).kind = "WriteConflict")
    => ~ReturnedErr("AssertionFailed")

C9_Witness ==
    /\ Processed
    /\ \E i, j \in Idx :
          /\ i < j
          /\ PrewriteOf(i).kind = "AssertionFailed"
          /\ PrewriteOf(j).kind = "WriteConflict"
    /\ ReturnedErr("WriteConflict")

\* Sum of f over the finite set S.
RECURSIVE SumOver(_, _)
SumOver(S, f) ==
    IF S = {} THEN 0
    ELSE LET x == CHOOSE y \in S : TRUE
         IN  f[x] + SumOver(S \ {x}, f)

WbIdx(ops) == {i \in 1..Len(wb.mutations) : wb.mutations[i].op \in ops}

\* C10: write_bytes is the sum of key and value lengths over Put and
\* Insert, plus the key lengths over Delete and Lock; CheckNotExists counts
\* nothing.
C10_WriteBytes ==
    wb.bytes # -1 =>
        wb.bytes =
            SumOver(WbIdx({"Put", "Insert"}),
                    [i \in 1..Len(wb.mutations) |->
                        Len(wb.mutations[i].key) + Len(wb.mutations[i].value)])
            + SumOver(WbIdx({"Delete", "Lock"}),
                      [i \in 1..Len(wb.mutations) |-> Len(wb.mutations[i].key)])

C10_Witness ==
    /\ wb.bytes > 0
    /\ \E i \in 1..Len(wb.mutations) :
          /\ wb.mutations[i].op = "CheckNotExists"
          /\ Len(wb.mutations[i].key) > 0
    /\ \E i \in 1..Len(wb.mutations) :
          /\ wb.mutations[i].op \in {"Put", "Insert"}
          /\ Len(wb.mutations[i].value) > 0

\* The Flush of one Put on k has been applied once, and its lock is there or
\* has been committed (test_flush up to must_locked / must_commit).
FlushedPut(k) ==
    /\ phase = "done"
    /\ nissue = 1
    /\ Len(cmd.mutations) = 1
    /\ cmd.mutations[1].op = "Put"
    /\ cmd.mutations[1].key = k
    /\ res.handed
    /\ ModKeys(res.staged) = {k}

FlushedLock(k) ==
    [ts |-> cmd.start_ts, kind |-> "Put", value |-> cmd.mutations[1].value]

\* Every read of k at a timestamp of ts, at or after the commit of the
\* flushed Put, returns the value of the Put.
ReadsReturnFlushed(k, ts) ==
    \A w \in writes[k] :
        w.start_ts = cmd.start_ts /\ w.type = "Put" =>
            \A t \in ts \cap (w.commit_ts..MaxTs) :
                Get(locks[k], writes[k], t)
                    = [kind |-> "Value", value |-> cmd.mutations[1].value]

\* The read timestamps at which no lock on k blocks the read and no version
\* of k is committed after the one of the Flush.
Unhindered(k) ==
    {t \in Ts :
        /\ Get(locks[k], writes[k], t).kind # "KeyIsLocked"
        /\ \A x \in writes[k] :
               x.type \in {"Put", "Delete"} /\ x.commit_ts <= t =>
                   \E w \in writes[k] : /\ w.start_ts = cmd.start_ts
                                        /\ x.commit_ts <= w.commit_ts}

\* C11 as stated: after the Flush of [Put(k, v)] is applied k is locked at
\* start_ts, and once it is committed every read of k at a timestamp from
\* commit_ts on returns v.
C11_FlushCommitGet ==
    \A k \in Keys :
        FlushedPut(k) =>
            /\ between = {} => locks[k] = FlushedLock(k)
            /\ ReadsReturnFlushed(k, Ts)

\* C11: after the Flush of [Put(k, v)] is applied k is locked at start_ts
\* with v, and once it is committed every read of k at a timestamp from
\* commit_ts on returns v, unless the read meets the lock another
\* transaction has put on k since, or a version committed later.
C11_FlushCommitGetUnhindered ==
    \A k \in Keys :
        FlushedPut(k) =>
            /\ between = {} => locks[k] = FlushedLock(k)
            /\ ReadsReturnFlushed(k, Unhindered(k))

\* test_flush: flushed, committed at start_ts + 1, read at start_ts + 1.
C11_Witness ==
    \E k \in Keys :
        /\ FlushedPut(k)
        /\ locks[k] = NoLock
        /\ \E w \in writes[k] :
              /\ w.start_ts = cmd.start_ts
              /\ w.commit_ts = cmd.start_ts + 1
              /\ Get(locks[k], writes[k], w.commit_ts)
                    = [kind |-> "Value", value |-> cmd.mutations[1].value]

\* The applied Flush has staged a lock on k, and no other command has
\* touched the keys of the Flush since (the lock is uncommitted).
FlushLockStaged(k) ==
    /\ phase = "done"
    /\ between = {}
    /\ res.handed
    /\ k \in ModKeys(res.staged)

\* C14: while the lock a Flush at s1 has staged on k is uncommitted, the
\* acquisition of a pessimistic lock and an ordinary prewrite on k by a
\* transaction with start_ts s2 > s1 both fail.
C14_FlushLockBlocks ==
    \A k \in Keys :
        FlushLockStaged(k) =>
            \A s2 \in Ts : s2 > cmd.start_ts =>
                /\ \A v \in EnvValues :
                       Prewrite(locks[k], writes[k], s2,
                                Mutation("Put", k, v, "None")).kind # "Ok"
                /\ \A f \in Ts : f >= s2 =>
                       AcquirePessimisticLock(locks[k], writes[k], s2, f) # "Ok"
                /\ \A v \in EnvValues : ~ENABLED EnvPrewrite(k, s2, v)
                /\ \A f \in Ts : ~ENABLED EnvPessimisticLock(k, s2, f)

\* test_write_conflict: flushed at s1, then both attempts at s1 + 1 meet the
\* lock.
C14_Witness ==
    \E k \in Keys :
        /\ FlushLockStaged(k)
        /\ nenv < MaxEnv
        /\ cmd.start_ts < MaxTs
        /\ locks[k].ts = cmd.start_ts
        /\ \E v \in EnvValues :
              Prewrite(locks[k], writes[k], cmd.start_ts + 1,
                       Mutation("Put", k, v, "None")).kind = "KeyIsLocked"
        /\ AcquirePessimisticLock(locks[k], writes[k], cmd.start_ts + 1,
                                  cmd.start_ts + 1) = "KeyIsLocked"

\* The mutations of cmd whose prewrite reports an error of the given kind.
IdxOfKind(kind) == {i \in Idx : PrewriteOf(i).kind = kind}

\* The prewrite result r ends the loop: a conflict with a newer commit, a
\* lock met on a key with a commit record of this transaction (committed),
\* or any other error but AssertionFailed.
EndsLoopOn(r, committed) ==
    /\ r.kind \notin {"Ok", "AssertionFailed"}
    /\ r.kind = "KeyIsLocked" => committed

\* Mutation i of cmd ends the loop.
EndsLoop(i) ==
    EndsLoopOn(PrewriteOf(i),
               HasCommittedRecord(writes[PrewriteOf(i).key], cmd.start_ts))

\* The indices 1..n in order.
UpTo(n) == [i \in 1..n |-> i]

\* C16: with no mutation that ends the loop, the error returned for a batch
\* with assertion failures is the AssertionFailed of the first such
\* mutation in batch order, and prewrite has run on every mutation.
C16_FirstAssertionFailure ==
    (/\ Processed
     /\ IdxOfKind("AssertionFailed") # {}
     /\ \A i \in Idx : ~EndsLoop(i))
    => LET first == CHOOSE i \in IdxOfKind("AssertionFailed") :
                        \A j \in IdxOfKind("AssertionFailed") : i <= j
       IN  /\ ReturnedErr("AssertionFailed")
           /\ res.err = ErrorOf(PrewriteOf(first))
           /\ res.trace = UpTo(Len(cmd.mutations))

\* Two assertion failures on different keys.
C16_Witness ==
    /\ Processed
    /\ \A i \in Idx : ~EndsLoop(i)
    /\ \E i, j \in IdxOfKind("AssertionFailed") :
          /\ i < j
          /\ cmd.mutations[i].key # cmd.mutations[j].key
          /\ res.err.key = cmd.mutations[i].key
    /\ ReturnedErr("AssertionFailed")

RetryConfirmedAt(i) ==
    LET r == PrewriteOf(i)
    IN  /\ IsConflictWithNewerCommit(r) \/ r.kind = "KeyIsLocked"
        /\ HasCommittedRecord(writes[r.key], cmd.start_ts)

\* C18: when the lookup at mutation i confirms a retry (the loop having
\* got as far as i), the command succeeds at once with the list of the
\* lookup (empty) as its per-key list: no KeyIsLocked entry collected
\* before i, no remembered AssertionFailed, and no prewrite after i.
C18_RetryEndsAtOnce ==
    Processed =>
        \A i \in Idx :
            (/\ \A j \in 1..(i - 1) : ~EndsLoop(j)
             /\ RetryConfirmedAt(i))
            => /\ res.retried
               /\ res.outcome = "Ok"
               /\ res.err = NoErr
               /\ res.pr = <<>>
               /\ res.trace = UpTo(i)

\* A retry confirmed at the second mutation after a lock was met at the
\* first and its error collected.
C18_Witness ==
    /\ Processed
    /\ res.retried
    /\ Len(res.trace) = 2
    /\ PrewriteOf(1).kind = "KeyIsLocked"
    /\ ~HasCommittedRecord(writes[cmd.mutations[1].key], cmd.start_ts)

\* The errors of the mutations of cmd whose prewrite reports KeyIsLocked,
\* in batch order.
KeyIsLockedErrors ==
    LET all == [i \in Idx |-> PrewriteOf(i)]
        met == SelectSeq(all, LAMBDA r : r.kind = "KeyIsLocked")
    IN  [j \in 1..Len(met) |-> ErrorOf(met[j])]

\* C19: the per-key list of a success without retry holds one error entry
\* for each mutation whose prewrite reported KeyIsLocked, in batch order,
\* and nothing else; it is empty when no mutation met a lock.
C19_SuccessShape ==
    Processed /\ res.outcome = "Ok" /\ ~res.retried =>
        /\ res.pr = KeyIsLockedErrors
        /\ IdxOfKind("KeyIsLocked") = {} => res.pr = <<>>

\* Two mutations meet locks on different keys.
C19_Witness ==
    /\ Processed
    /\ res.outcome = "Ok"
    /\ ~res.retried
    /\ Len(res.pr) = 2
    /\ res.pr[1].key # res.pr[2].key
    /\ res.pr[1].key = cmd.mutations[1].key

(* --------------------- write_bytes specification ----------------------- *)
\* Byte strings of length 0..n (write_bytes looks at lengths only).
ByteStrings(n) == UNION {[1..l -> {0}] : l \in 0..n}

WbMutations ==
    {Mutation(op, k, v, "None") :
        op \in MutationOps, k \in ByteStrings(MaxKeyLen),
        v \in ByteStrings(MaxValLen)}

WbBatches == UNION {[1..n -> WbMutations] : n \in 0..MaxWbLen}

InitWB ==
    /\ locks = [k \in Keys |-> NoLock]
    /\ writes = [k \in Keys |-> {}]
    /\ cmd = NoCmd
    /\ phase = "wb"
    /\ res = NoRes
    /\ prev = NoRes
    /\ between = {}
    /\ nissue = 0
    /\ nenv = 0
    /\ wb \in {[mutations |-> b, bytes |-> -1] : b \in WbBatches}
    /\ arms = NoArms
    /\ sched = NoSched

\* The scheduler asks the command for its write_bytes.
CallWriteBytes ==
    /\ phase = "wb"
    /\ wb.bytes = -1
    /\ wb' = [wb EXCEPT !.bytes = WriteBytes(wb.mutations)]
    /\ UNCHANGED <<locks, writes, cmd, phase, res, prev, between, nissue, nenv,
                 arms, sched>>

NextWB == CallWriteBytes

SpecWB == InitWB /\ [][NextWB]_vars

(* ------------------------ match specification -------------------------- *)
\* The loop of Flush::flush on prewrite results of every kind the match has
\* an arm for, whether or not prewrite reports them with the properties
\* Flush passes.
ArmErrorKinds ==
    {"KeyIsLocked", "AssertionFailed", "PessimisticLockNotFound",
     "CommitTsTooLarge", "AlreadyExist"}

ArmResults(start_ts) ==
    {PrewriteResult(kind, k, start_ts, 0, NoLock) :
        kind \in ArmErrorKinds, k \in Keys}
    \cup {PrewriteResult("WriteConflict", k, start_ts, c, NoLock) :
            k \in Keys, c \in Ts}
    \cup {[PrewriteResult("Ok", k, start_ts, 0,
                          [ts |-> start_ts, kind |-> "Put", value |-> v])
               EXCEPT !.guard = g] :
            k \in Keys, v \in Values, g \in BOOLEAN}

ArmBatches(start_ts) == UNION {[1..n -> ArmResults(start_ts)] : n \in 0..MaxLen}

\* The write records of a key with / without a commit record of start_ts.
ArmWrites(start_ts, committed) ==
    IF committed
    THEN {[start_ts |-> start_ts, commit_ts |-> start_ts + 1, type |-> "Put",
           value |-> <<>>]}
    ELSE {}

\* The loop over the prewrite results rs from the i-th on; recs tells which
\* keys have a commit record of start_ts.
RECURSIVE FlushOver(_, _, _, _, _)
FlushOver(rs, recs, start_ts, i, st) ==
    IF i > Len(rs) THEN AfterLoop(st)
    ELSE
      LET a == MatchPrewriteResult(rs[i], ArmWrites(start_ts, recs[rs[i].key]),
                                   start_ts, [st EXCEPT !.trace = Append(@, i)])
      IN  IF a.done THEN a.ret ELSE FlushOver(rs, recs, start_ts, i + 1, a.st)

\* process_write with prewrite reporting rs.
RunArms(start_ts, rs, recs) ==
    /\ phase = "idle"
    /\ nenv = 0
    /\ arms' = [start_ts |-> start_ts, results |-> rs, records |-> recs,
                out |-> WriteResultOf(FlushOver(rs, recs, start_ts, 1, FlushState0),
                                      Len(rs))]
    /\ phase' = "arms"
    /\ UNCHANGED <<locks, writes, cmd, res, prev, between, nissue, nenv, wb,
                   sched>>

NextArms ==
    /\ phase = "idle"
    /\ nenv = 0
    /\ \E s \in Ts : \E rs \in ArmBatches(s), recs \in [Keys -> BOOLEAN] :
           RunArms(s, rs, recs)

\* The store specification and, beside it, the match on arbitrary prewrite
\* results.
NextStoreOrArms == Next \/ NextArms

SpecArms == Init /\ [][NextStoreOrArms]_vars

UnreachableKinds == {"PessimisticLockNotFound", "CommitTsTooLarge"}

LastPrewritten(n, ends) ==
    IF ends = {} THEN n
    ELSE CHOOSE i \in ends : \A j \in ends : i <= j

ArmIdx == 1..Len(arms.results)

\* C20: process_write comes to an end with prewrite called once on each
\* mutation, in batch order, up to the first whose error is neither
\* AssertionFailed nor a KeyIsLocked without commit record of this
\* transaction, and on no mutation after that one; on the store and for
\* prewrite results of every kind.
C20_LoopSequential ==
    /\ Processed =>
          /\ res.outcome \in {"Ok", "Err"}
          /\ res.trace =
                UpTo(LastPrewritten(Len(cmd.mutations),
                                    {i \in Idx : EndsLoop(i)}))
    /\ phase = "arms" =>
          /\ arms.out.outcome \in {"Ok", "Err", "Panic"}
          /\ arms.out.trace =
                UpTo(LastPrewritten(Len(arms.results),
                        {i \in ArmIdx :
                            EndsLoopOn(arms.results[i],
                                       arms.records[arms.results[i].key])}))

\* On the store, the first mutation of two fails with an error the match
\* has no arm of its own for, and the second is not prewritten.
C20_Witness ==
    /\ Processed
    /\ Len(cmd.mutations) = 2
    /\ EndsLoop(1)
    /\ PrewriteOf(1).kind # "KeyIsLocked"
    /\ ~IsConflictWithNewerCommit(PrewriteOf(1))
    /\ res.trace = <<1>>
    /\ res.outcome = "Err"

\* The WriteResult wr carries no guards, no released locks, and the
\* response policy OnApplied.
PlainWriteResult(wr) ==
    /\ wr.lock_guards = <<>>
    /\ wr.released_locks = {}
    /\ wr.response_policy = "OnApplied"

CmdIds == {"a", "b"}

LatchMutations == {Mutation("Put", k, v, "None") : k \in Keys, v \in Values}
LatchBatches == UNION {[1..n -> LatchMutations] : n \in 0..MaxLen}

\* A command that has just arrived.
Waiting(c) ==
    [cmd |-> c, pc |-> "waiting", held |-> {}, i |-> 1, st |-> FlushState0,
     snap |-> [locks |-> [k \in Keys |-> NoLock], writes |-> [k \in Keys |-> {}]],
     arrived |-> [locks |-> [k \in Keys |-> NoLock],
                  writes |-> [k \in Keys |-> {}]],
     out |-> NoRes]

InitLatch ==
    /\ locks = [k \in Keys |-> NoLock]
    /\ writes = [k \in Keys |-> {}]
    /\ cmd = NoCmd
    /\ phase = "latch"
    /\ res = NoRes
    /\ prev = NoRes
    /\ between = {}
    /\ nissue = 0
    /\ nenv = 0
    /\ wb = NoWb
    /\ arms = NoArms
    /\ sched \in [CmdIds ->
                    {Waiting([start_ts |-> s, mutations |-> b]) :
                        s \in Ts, b \in LatchBatches}]

LatchUnchanged ==
    UNCHANGED <<writes, cmd, phase, res, prev, between, nissue, nenv, wb, arms>>

\* The latches of the keys in ks are free for command a.
LatchesFree(a, ks) ==
    \A b \in CmdIds \ {a} : sched[b].held \cap ks = {}

\* The scheduler grants command a all the latches it declares; the command
\* takes its snapshot.
AcquireLatches(a) ==
    /\ phase = "latch"
    /\ sched[a].pc = "waiting"
    /\ LatchesFree(a, CmdKeys(sched[a].cmd))
    /\ sched' = [sched EXCEPT ![a].pc = "running",
                              ![a].held = CmdKeys(sched[a].cmd),
                              ![a].snap = [locks |-> locks, writes |-> writes]]
    /\ UNCHANGED locks
    /\ LatchUnchanged

\* One pass of the loop of flush of command a, or its end.
LoopStep(a) ==
    /\ phase = "latch"
    /\ sched[a].pc = "running"
    /\ LET x == sched[a]
           c == x.cmd
           n == Len(c.mutations)
       IN  IF x.i > n
           THEN sched' = [sched EXCEPT ![a].pc = "returned",
                                      ![a].out = WriteResultOf(AfterLoop(x.st), n)]
           ELSE LET m == c.mutations[x.i]
                    r == Prewrite(x.snap.locks[m.key], x.snap.writes[m.key],
                                  c.start_ts, m)
                    y == MatchPrewriteResult(r, x.snap.writes[m.key], c.start_ts,
                                             [x.st EXCEPT !.trace = Append(@, x.i)])
                IN  IF y.done
                    THEN sched' = [sched EXCEPT ![a].pc = "returned",
                                               ![a].st = y.st,
                                               ![a].out = WriteResultOf(y.ret, n)]
                    ELSE sched' = [sched EXCEPT ![a].i = x.i + 1, ![a].st = y.st]
    /\ UNCHANGED locks
    /\ LatchUnchanged

\* The write-set of command a is written and its latches are released.
WriteAndRelease(a) ==
    /\ phase = "latch"
    /\ sched[a].pc = "returned"
    /\ locks' = WriteModifies(locks, sched[a].out.to_be_write, 1)
    /\ sched' = [sched EXCEPT ![a].pc = "finished", ![a].held = {}]
    /\ LatchUnchanged

NextLatch ==
    \E a \in CmdIds : AcquireLatches(a) \/ LoopStep(a) \/ WriteAndRelease(a)

SpecLatch == InitLatch /\ [][NextLatch]_vars

\* Command a is between the grant of its latches and their release.
InProcess(a) == sched[a].pc \in {"running", "returned"}

\* The keys of all the mutations of command a.
MutationKeys(a) ==
    {sched[a].cmd.mutations[i].key : i \in 1..Len(sched[a].cmd.mutations)}

\* The keys command a has run prewrite on so far.
PrewrittenKeys(a) ==
    {sched[a].cmd.mutations[sched[a].st.trace[j]].key :
        j \in 1..Len(sched[a].st.trace)}

\* C12: a Flush in process holds the latches of the keys of all its
\* mutations, and of two Flush commands with intersecting key sets only one
\* is in process at a time: the first runs its whole loop, and its write,
\* before the other prewrites a shared key.
C12_LatchesSerialize ==
    phase = "latch" =>
        \A a \in CmdIds :
            /\ InProcess(a) => sched[a].held = MutationKeys(a)
            /\ \A b \in CmdIds \ {a} :
                   /\ MutationKeys(a) \cap MutationKeys(b) # {}
                   /\ sched[a].pc = "running"
                   => /\ ~InProcess(b)
                      /\ \/ sched[b].pc = "finished"
                         \/ PrewrittenKeys(b) = {}

\* One command is in the middle of its loop while the other, which shares
\* a key with it (and has one more), waits for the latch.
C12_Witness ==
    /\ phase = "latch"
    /\ \E a \in CmdIds : \E b \in CmdIds \ {a} :
          /\ MutationKeys(a) \cap MutationKeys(b) # {}
          /\ MutationKeys(a) # MutationKeys(b)
          /\ sched[a].pc = "running"
          /\ sched[a].i > 1
          /\ sched[b].pc = "waiting"

(* ----------------- two disjoint commands on any store ------------------- *)
\* What a key holds when the two commands arrive: nothing, the Put lock of
\* some transaction, or a Put some transaction has committed.
StoredLocks ==
    {NoLock} \cup {[ts |-> s, kind |-> "Put", value |-> v] :
                      s \in Ts, v \in EnvValues}
StoredWrites ==
    {{}} \cup {{[start_ts |-> s, commit_ts |-> s + 1, type |-> "Put",
                  value |-> v]} : s \in 1..(MaxTs - 1), v \in EnvValues}

\* The stores the engine can be in: a key is not locked by a transaction
\* that has committed on it.
Stores ==
    {st \in [locks : [Keys -> StoredLocks], writes : [Keys -> StoredWrites]] :
        \A k \in Keys : \A w \in st.writes[k] : w.start_ts # st.locks[k].ts}

\* Two Flush commands of different transactions on disjoint keys.
DisjointPairs ==
    {p \in [CmdIds -> [start_ts : Ts, mutations : LatchBatches]] :
        /\ p["a"].start_ts # p["b"].start_ts
        /\ CmdKeys(p["a"]) \cap CmdKeys(p["b"]) = {}}

InitCommute ==
    /\ cmd = NoCmd
    /\ phase = "latch"
    /\ res = NoRes
    /\ prev = NoRes
    /\ between = {}
    /\ nissue = 0
    /\ nenv = 0
    /\ wb = NoWb
    /\ arms = NoArms
    /\ \E st \in Stores, p \in DisjointPairs :
          /\ locks = st.locks
          /\ writes = st.writes
          /\ sched = [a \in CmdIds |-> [Waiting(p[a]) EXCEPT !.arrived = st]]

SpecCommute == InitCommute /\ [][NextLatch]_vars

\* The lock the write-set mods leaves on key k (that of its last
\* modification of k), or lk if it has none.
LockLeft(mods, k, lk) ==
    LET on == {j \in 1..Len(mods) : mods[j].key = k}
    IN  IF on = {} THEN lk
        ELSE mods[CHOOSE j \in on : \A l \in on : l <= j].lock

\* What command a returns when it runs alone on the store it arrived at.
Alone(a) ==
    ProcessWrite(sched[a].arrived.locks, sched[a].arrived.writes, sched[a].cmd)

\* C21: of two Flush commands with different start timestamps and disjoint
\* key sets each returns, in whatever order and interleaving they run and
\* are applied, the outcome and the per-key list it returns when run alone
\* on the store they arrived at; and when both are applied the store holds
\* the locks of both write-sets and is unchanged elsewhere.
C21_DisjointCommute ==
    phase = "latch" =>
        \A a \in CmdIds : \A b \in CmdIds \ {a} :
            (/\ sched[a].cmd.start_ts # sched[b].cmd.start_ts
             /\ MutationKeys(a) \cap MutationKeys(b) = {})
            => /\ sched[a].pc \in {"returned", "finished"} =>
                      /\ sched[a].out.outcome = Alone(a).outcome
                      /\ sched[a].out.err = Alone(a).err
                      /\ sched[a].out.pr = Alone(a).pr
                      /\ sched[a].out.to_be_write = Alone(a).to_be_write
               /\ sched[a].pc = "finished" /\ sched[b].pc = "finished" =>
                      /\ writes = sched[a].arrived.writes
                      /\ \A k \in Keys :
                             locks[k] =
                                 LockLeft(sched[a].out.to_be_write, k,
                                     LockLeft(sched[b].out.to_be_write, k,
                                              sched[a].arrived.locks[k]))

\* Both commands are applied, one of them having taken its snapshot after
\* the other had been written; one has staged a lock and the other has met
\* the lock of another transaction.
C21_Witness ==
    /\ phase = "latch"
    /\ \E a \in CmdIds : \E b \in CmdIds \ {a} :
          /\ sched[a].cmd.start_ts # sched[b].cmd.start_ts
          /\ MutationKeys(a) \cap MutationKeys(b) = {}
          /\ sched[a].pc = "finished"
          /\ sched[b].pc = "finished"
          /\ sched[a].out.to_be_write # <<>>
          /\ sched[b].snap.locks # sched[b].arrived.locks
          /\ sched[b].out.outcome = "Ok"
          /\ sched[b].out.pr # <<>>

====
